---- MODULE Spec2Model ----
(***************************************************************************)
(* Named-counter service of a-h/serverless-testing: the counter stores     *)
(* (in-memory DB class, stage-03 module map, DynamoDB DB classes, the      *)
(* dynamosimple module, the Firestore module) and the express handlers     *)
(* that serve GET/POST /count/:name on top of them.                        *)
(*                                                                         *)
(* One behaviour is one process: an entrypoint (app) is fixed in Init and  *)
(* up to MaxReq requests are served by it.  A handler runs synchronously   *)
(* until its first await on I/O (Node's run-to-completion), so an          *)
(* in-memory store call is part of the step that starts the request, and   *)
(* a durable store call is a command sent to the external service, which   *)
(* processes it atomically in a step of its own.                           *)
(***************************************************************************)
EXTENDS Integers, Sequences, FiniteSets, TLC

\* ------------------------------------------------------------------ bounds
\* MaxReq requests are served where a store call is one step (in-memory
\* stores); MaxIoReq where a request takes several steps (durable stores,
\* and the in-memory stores run in parallel).
MaxReq == 3

MaxIoReq == 2

Slots == 1..MaxReq

IoSlots == 1..MaxIoReq

\* Names a path segment can carry.  "constructor" stands for the names that
\* are members of Object.prototype (constructor, toString, valueOf, ...).
PlainNames == {"a", "b"}

ProtoNames == {"constructor"}

Names == PlainNames \cup ProtoNames

\* Path segments a request can carry after /count/ : a name as it is, the
\* percent-encoded form of "a", a segment that is no valid percent-encoding,
\* and the empty segment.
EncodedSegments == {"%61"}

BadSegments == {"%"}

Segments == Names \cup EncodedSegments \cup BadSegments \cup {""}

\* express matches "/count/:name" against one or more characters ...
RouteMatches(seg) == seg # ""

\* ... and sets req.params.name = decodeURIComponent(segment); a URIError
\* there is answered 400 before any handler runs.
Decodable(seg) == seg \notin BadSegments

decodeURIComponent(seg) == IF seg = "%61" THEN "a" ELSE seg

\* ------------------------------------------------------- JavaScript values
\* A value a counter map or a Count.count can hold at run time.
Num(n) == [t |-> "num", n |-> n]

NaNv == [t |-> "nan", n |-> 0]

Undef == [t |-> "undef", n |-> 0]

\* An inherited function such as Object.prototype.constructor.
Fn == [t |-> "fn", n |-> 0]

\* The string "function Object() { [native code] }" followed by k characters "1".
Str(k) == [t |-> "str", n |-> k]

\* ToBoolean
Truthy(v) == \/ v.t = "fn"
             \/ v.t = "str"
             \/ (v.t = "num" /\ v.n # 0)

\* v + 1: numeric addition on numbers, string concatenation once ToPrimitive
\* of an operand is a string (a function's primitive is its source text).
Plus1(v) == CASE v.t = "num" -> Num(v.n + 1)
              [] v.t = "fn" -> Str(1)
              [] v.t = "str" -> Str(v.n + 1)
              [] OTHER -> NaNv

\* v++ : ToNumber(v) + 1
PostInc(v) == IF v.t = "num" THEN Num(v.n + 1) ELSE NaNv

\* v ?? 0
NullishOr0(v) == IF v.t = "undef" THEN Num(0) ELSE v

\* v || 0
Or0(v) == IF Truthy(v) THEN v ELSE Num(0)

\* ------------------------------------------------------------ call results
\* What a store call settles with: a Count object, null, undefined, or a
\* rejection (why: "unavailable" transient, "rejected" by the service,
\* or the error of an injected store function that always throws).
NoRet == [k |-> "none", name |-> "", count |-> Undef, why |-> ""]

Ok(name, v) == [k |-> "ok", name |-> name, count |-> v, why |-> ""]

RetNull == [k |-> "null", name |-> "", count |-> Undef, why |-> ""]

RetUndef == [k |-> "undef", name |-> "", count |-> Undef, why |-> ""]

Threw(why) == [k |-> "threw", name |-> "", count |-> Undef, why |-> why]

\* ---------------------------------------------------------- in-memory maps
\* data[name] on an object literal {}: the own property if there is one,
\* otherwise the member inherited from Object.prototype, otherwise undefined.
\* A map is a function Names -> value, Undef meaning "no own property".
EmptyMap == [n \in Names |-> Undef]

Lookup(data, name) ==
    IF data[name] # Undef THEN data[name]
    ELSE IF name \in ProtoNames THEN Fn ELSE Undef

\* DB.get of the in-memory class: this.data[name] ?? 0
MemGet(data, name) == Ok(name, NullishOr0(Lookup(data, name)))

\* DB.put, the assignment: this.data[name] ? this.data[name] + 1 : 1
MemPutValue(cond, operand) == IF Truthy(cond) THEN Plus1(operand) ELSE Num(1)

\* One counter shared by every name: the total is stored under each.
MemPutDataShared(data, name) ==
    [n \in Names |-> MemPutValue(Lookup(data, name), Lookup(data, name))]

MemPutData(data, name) ==
    [data EXCEPT ![name] = MemPutValue(Lookup(data, name), Lookup(data, name))]

\* DB.put: the assignment, then return this.get(name)
MemPut(data, name) == MemGet(MemPutData(data, name), name)

\* stage 03 get: inmemoryDB[name] || 0
Stage03Get(data, name) == Ok(name, Or0(Lookup(data, name)))

\* stage 03 increment: if (!db[name]) db[name] = 0; db[name]++
Stage03Zeroed(data, name) ==
    IF ~Truthy(Lookup(data, name)) THEN [data EXCEPT ![name] = Num(0)] ELSE data

Stage03IncData(data, name) ==
    LET d == Stage03Zeroed(data, name)
    IN  [d EXCEPT ![name] = PostInc(Lookup(d, name))]

Stage03Increment(data, name) == Stage03Get(Stage03IncData(data, name), name)

\* ------------------------------------------------------- external services
\* What the managed store answers to one command.
Reply(ok, why, item) == [ok |-> ok, why |-> why, item |-> item]

NoReply == Reply(FALSE, "", Undef)

\* DynamoDB GetItem with ConsistentRead: the item's count, Undef for no item.
DdbGetItem(items, name) == Reply(TRUE, "", items[name])

\* DynamoDB UpdateItem "SET #c = if_not_exists(#c, :zero) + :one", one atomic
\* request; ReturnValues ALL_NEW answers the item after the update.
DdbUpdateItems(items, name) ==
    [items EXCEPT ![name] = IF items[name] = Undef THEN Num(1) ELSE Num(items[name].n + 1)]

DdbUpdateReply(items, name) == Reply(TRUE, "", DdbUpdateItems(items, name)[name])

\* UpdateItem "SET if_not_exists(#c, :zero) + :one": a SET action without
\* "path =" is no valid update expression; the service answers a
\* ValidationException and changes nothing.
DdbBadUpdateReply == Reply(FALSE, "rejected", Undef)

\* Firestore doc(name).get(): a snapshot, exists or not.
FsGetDoc(docs, name) == Reply(TRUE, "", docs[name])

\* Firestore doc(name).update({count: FieldValue.increment(1)}): fails with
\* NOT_FOUND when the document does not exist, else adds one atomically.
FsUpdateOk(docs, name) == docs[name] # Undef

FsUpdateDocs(docs, name) ==
    IF FsUpdateOk(docs, name) THEN [docs EXCEPT ![name] = Num(docs[name].n + 1)] ELSE docs

FsUpdateReply(docs, name) ==
    IF FsUpdateOk(docs, name) THEN Reply(TRUE, "", Undef) ELSE Reply(FALSE, "rejected", Undef)

\* The service's answer to a command, and the records after it.
ServiceReply(cmd, recs, name) ==
    CASE cmd = "GetItem" -> DdbGetItem(recs, name)
      [] cmd = "UpdateItem" -> DdbUpdateReply(recs, name)
      [] cmd = "BadUpdateItem" -> DdbBadUpdateReply
      [] cmd = "FsGet" -> FsGetDoc(recs, name)
      [] cmd = "FsUpdate" -> FsUpdateReply(recs, name)

ServiceRecords(cmd, recs, name) ==
    CASE cmd = "UpdateItem" -> DdbUpdateItems(recs, name)
      [] cmd = "FsUpdate" -> FsUpdateDocs(recs, name)
      [] OTHER -> recs

\* ------------------------------------------------- durable store functions
\* get of part_007 and of dynamosimple: result.Item ? result.Item : {name, count: 0}
DynamoGetReturn(reply, name) ==
    IF reply.item # Undef THEN Ok(name, reply.item) ELSE Ok(name, Num(0))

\* get of node-lambda-example's dynamo DB: return result.Item as Count
DynamoLambdaGetReturn(reply, name) ==
    IF reply.item # Undef THEN Ok(name, reply.item) ELSE RetUndef

\* put / increment of the DynamoDB stores: return result.Attributes as Count
DynamoPutReturn(reply, name) == Ok(name, reply.item)

\* Firestore get: if (!record.exists) return null; return record.data()
FirestoreGetReturn(reply, name) ==
    IF reply.item = Undef THEN RetNull ELSE Ok(name, reply.item)

\* ------------------------------------------------------------- entrypoints
Stores == {"inmemory", "stage03", "dynamo", "dynamoLambda", "dynamosimple", "firestore"}

MemStores == {"inmemory", "stage03"}

\* HTTP entrypoints, and the two integration-test harnesses that call a
\* store's functions directly (verb GET stands for get, POST for put).
HttpApps == {"createApp", "stage03", "lambdaHttp", "server", "cloudfunction",
             "postLambda", "getsimpleLambda"}

TestApps == {"dynamosimpleTest", "dynamoLambdaTest"}

Apps == HttpApps \cup TestApps

StoreOf(a) ==
    CASE a = "createApp" -> "inmemory"
      [] a = "stage03" -> "stage03"
      [] a = "lambdaHttp" -> "inmemory"
      [] a = "server" -> "dynamo"
      [] a = "cloudfunction" -> "firestore"
      [] a = "postLambda" -> "dynamo"
      [] a = "getsimpleLambda" -> "dynamosimple"
      [] a = "dynamosimpleTest" -> "dynamosimple"
      [] a = "dynamoLambdaTest" -> "dynamoLambda"

Verbs == {"GET", "POST"}

\* The store operation the app's route for the verb calls; "none": no route.
PostLambdaRoute(verb) == IF verb = "GET" THEN "get" ELSE "none"

RouteOp(a, verb) ==
    CASE a = "postLambda" -> PostLambdaRoute(verb)
      [] a = "getsimpleLambda" -> (IF verb = "GET" THEN "get" ELSE "none")
      [] OTHER -> (IF verb = "GET" THEN "get" ELSE "inc")

\* Only createApp wraps the awaited store call in try/catch.
Catches(a) == a = "createApp"

\* The first command a durable store function sends.
FirstCmd(st, op) ==
    CASE st = "firestore" -> (IF op = "get" THEN "FsGet" ELSE "FsUpdate")
      [] st = "dynamoLambda" -> (IF op = "get" THEN "GetItem" ELSE "BadUpdateItem")
      [] OTHER -> (IF op = "get" THEN "GetItem" ELSE "UpdateItem")

\* ---------------------------------------------------------------- responses
\* JSON.stringify of a count: a number as itself, NaN as null, a string as a
\* string, a function or undefined leaves the property out.
JsonCount(v) ==
    CASE v.t = "num" -> v
      [] v.t = "str" -> v
      [] v.t = "nan" -> [t |-> "null", n |-> 0]
      [] OTHER -> [t |-> "omitted", n |-> 0]

Resp(status, kind, name, count) ==
    [status |-> status, kind |-> kind, name |-> name, count |-> count]

NoResp == Resp(0, "none", "", Undef)

\* express's answer when no route matches the method and path.
NotFoundResp == Resp(404, "notfound", "", Undef)

BadRequestResp == Resp(400, "badrequest", "", Undef)

\* handleError: res.status(500); res.json({status: 500, msg: "internal server error"})
ErrorResp == Resp(500, "error", "", Undef)

\* An error handler that reports the error: msg: e.message
handleErrorReports(e) == Resp(500, "error", e.why, Undef)

handleError(e) == ErrorResp

\* res.json(r) with the default status 200: a Count, null, or undefined (no body).
JsonResp(ret) ==
    CASE ret.k = "ok" -> Resp(200, "counter", ret.name, JsonCount(ret.count))
      [] ret.k = "null" -> Resp(200, "null", "", Undef)
      [] OTHER -> Resp(200, "empty", "", Undef)

\* ------------------------------------------------------------------- state
\* The table a backend is created with (process.env.TABLE_NAME, or the
\* constructor's argument), and the one a test creates and hands to init.
StartTable == "TABLE_NAME"

TestTable == "createLocalTable"

Tables == {StartTable, TestTable}

\* ------------------------------------------------------------------ voting
\* The asynchronous example: POST /vote hands the request body to
\* messageHandler, which logs each VoteEvent of the array it is given.
MaxVotes == 2

MaxEvents == 2

VoteSlots == 1..MaxVotes

\* VoteEvent.count
VoteCounts == {0, 1}

VoteEvents == UNION {[1..n -> VoteCounts] : n \in 0..MaxEvents}

\* What a client posts: the JSON text of an array of events, the JSON text
\* of an object, text that is not JSON, or nothing that is JSON at all.
Payloads ==
    [t : {"array"}, events : VoteEvents]
        \cup [t : {"object", "malformed", "none"}, events : {<<>>}]

\* app.use(express.json()): req.body is the parsed array or object, {} when
\* the request carries no JSON; text that does not parse never reaches the
\* route.
Parses(payload) == payload.t # "malformed"

JsonBody(payload) ==
    IF payload.t = "array" THEN payload ELSE [t |-> "object", events |-> <<>>]

NotAFunction == "events.forEach is not a function"

\* messageHandler is an async function: calling it runs its body at once and
\* returns a promise, fulfilled once every event is logged, rejected with
\* the TypeError when events has no forEach.  The call itself never throws.
messageHandler(events) ==
    IF events.t = "array"
    THEN [k |-> "promise", state |-> "fulfilled", why |-> "", lines |-> events.events]
    ELSE [k |-> "promise", state |-> "rejected", why |-> NotAFunction, lines |-> <<>>]

NoCall == [k |-> "none", state |-> "", why |-> "", lines |-> <<>>]

VoteResp(status, ok, err) == [status |-> status, ok |-> ok, err |-> err]

NoVoteResp == VoteResp(0, FALSE, "")

\* try { messageHandler(req.body); res.json({ ok: true }) }
\* catch (e) { res.status(500); res.json({ ok: false, err: e }) }
\* The promise is not awaited: only a throw of the call reaches the catch.
VoteHandler(call) ==
    IF call.k = "threw"
    THEN VoteResp(500, FALSE, call.why)
    ELSE VoteResp(200, TRUE, "")

IdleVote ==
    [pc |-> "idle", payload |-> [t |-> "none", events |-> <<>>],
     call |-> NoCall, resp |-> NoVoteResp, unhandled |-> ""]

VARIABLES
    app,      \* the entrypoint this process runs
    inject,   \* createApp's injected failing store function: "none", "get", "inc"
    store,    \* the counter records: the in-memory map, the table, the collection
    req,      \* the requests, by slot
    table,    \* dynamosimple's module-level table (and client): where calls go
    spare,    \* the records of the table a test creates for itself
    vote      \* the requests to POST /vote, by slot

vars == <<app, inject, store, req, table, spare, vote>>

\* pc: "idle" not yet received; "sent" a command is with the service;
\* "reply" the service has answered, the awaiting function is not resumed;
\* "await" the store call has settled, the handler is not yet resumed;
\* "done" answered (or returned, in a test harness); "unhandled" the
\* handler's promise rejected with nothing to catch it: no response is sent.
\* prior, applied, solo: history, not program state.  prior is the record
\* (Undef: none) the call's +1 was applied against, applied says the call
\* has written, solo says no other request was in flight when this one was
\* received.  tmp is the value a read of the map left in the
\* call's frame (used only where the statements of put/increment are run
\* as separate steps, see SpecParallel).
\* after, ver, aborted: history too.  after is the set of requests that had
\* finished when this one was received, ver the number of increments of the
\* request's name that had been applied when its store call read (or
\* updated) the record, seen the record of that name its latest command
\* found, aborted says the client went away before it was answered, sent is
\* the number of commands the request's store call has sent to the service
\* and writes the number of times it has added one to a record, begun the
\* number of increments of its name received when its call returned.  table is
\* program state: the TableName the call put into its command.
IdleReq ==
    [verb |-> "", seg |-> "", name |-> "", op |-> "none", pc |-> "idle", cmd |-> "",
     reply |-> NoReply, ret |-> NoRet, resp |-> NoResp,
     prior |-> Undef, applied |-> FALSE, solo |-> FALSE, tmp |-> Undef,
     after |-> {}, ver |-> 0, seen |-> Undef, aborted |-> FALSE,
     sent |-> 0, writes |-> 0, begun |-> 0, table |-> ""]

InFlight(r) == r.pc \notin {"idle", "done", "unhandled"}

Finished(r) == r.pc \in {"done", "unhandled"}

Quiet == \A j \in Slots : ~InFlight(req[j])

FinishedNow == {j \in Slots : Finished(req[j])}

AppliedTo(name) == Cardinality({j \in Slots : req[j].applied /\ req[j].name = name})

\* Firestore documents exist only when something outside this code created
\* them: the collection starts with any set of documents {name, count: 0}.
InitStore(a) ==
    IF StoreOf(a) = "firestore" THEN [Names -> {Undef, Num(0)}] ELSE {EmptyMap}

InitInject(a) == IF a = "createApp" THEN {"none", "get", "inc"} ELSE {"none"}

Init ==
    /\ app \in Apps
    /\ inject \in InitInject(app)
    /\ store \in InitStore(app)
    /\ table = StartTable
    /\ spare = EmptyMap
    /\ req = [i \in Slots |-> IdleReq]
    /\ vote = [i \in VoteSlots |-> IdleVote]

\* ----------------------------------------------------------------- handlers
\* The handler after its awaited store call settled with ret.
\* createApp: try { res.json(await op(name)) } catch (e) { handleError(e, res) }
\* create()/handler/stage 03: const r = await op(name); res.json(r)
HandlerCaught(ret) == IF ret.k = "threw" THEN handleError(ret) ELSE JsonResp(ret)

HandlerUncaught(ret) == IF ret.k = "threw" THEN NoResp ELSE JsonResp(ret)

HandlerResp(a, ret) == IF Catches(a) THEN HandlerCaught(ret) ELSE HandlerUncaught(ret)

HandlerPc(a, ret) ==
    IF ret.k = "threw" /\ ~Catches(a) /\ a \in HttpApps THEN "unhandled" ELSE "done"

Settle(r, ret) ==
    [r EXCEPT !.ret = ret,
              !.begun = Cardinality({j \in Slots : /\ req[j].pc # "idle"
                                                  /\ req[j].op = "inc"
                                                  /\ req[j].name = r.name}),
              !.resp = IF app \in HttpApps THEN HandlerResp(app, ret) ELSE NoResp,
              !.pc = HandlerPc(app, ret)]

\* A get that materializes the counter it reads: data[name] = data[name] ?? 0
MemCallDataGetStores(st, op, data, name) ==
    CASE op = "get" -> [data EXCEPT ![name] = NullishOr0(data[name])]
      [] st = "inmemory" -> MemPutData(data, name)
      [] st = "stage03" -> Stage03IncData(data, name)

\* A get that counts its own call: data[name] = (data[name] ?? 0) + 1
MemCallDataGetCounts(st, op, data, name) ==
    CASE op = "get" -> [data EXCEPT ![name] = Plus1(NullishOr0(data[name]))]
      [] st = "inmemory" -> MemPutData(data, name)
      [] st = "stage03" -> Stage03IncData(data, name)

\* The in-memory store call made by the handler, run to completion.
MemCallData(st, op, data, name) ==
    CASE op = "get" -> data
      [] st = "inmemory" -> MemPutData(data, name)
      [] st = "stage03" -> Stage03IncData(data, name)

MemCallRet(st, op, data, name) ==
    CASE st = "inmemory" /\ op = "get" -> MemGet(data, name)
      [] st = "inmemory" /\ op = "inc" -> MemPut(data, name)
      [] st = "stage03" /\ op = "get" -> Stage03Get(data, name)
      [] st = "stage03" /\ op = "inc" -> Stage03Increment(data, name)

Injected(op) == inject = op

\* What an injected failing store function throws.
InjectedErrors == {"database error", "connection reset"}

ReqLimit(a) == IF StoreOf(a) \in MemStores THEN MaxReq ELSE MaxIoReq

\* req.params.name of a request for /count/<seg>; a test harness passes the
\* name to the store function as it is.
ParamName(a, seg) == IF a \in HttpApps THEN decodeURIComponent(seg) ELSE seg

\* The response express gives without running a handler, "" if it runs one.
Unrouted(a, verb, seg) ==
    IF a \notin HttpApps THEN ""
    ELSE IF ~RouteMatches(seg) THEN "notfound"
    ELSE IF ~Decodable(seg) THEN "badrequest"
    ELSE IF RouteOp(a, verb) = "none" THEN "notfound"
    ELSE ""

\* A request arrives (slots are used in order) and its handler runs up to
\* the first await.
Receive(i, verb, seg) ==
    LET name == ParamName(app, seg)
        op == IF Unrouted(app, verb, seg) = "" THEN RouteOp(app, verb) ELSE "none"
        st == StoreOf(app)
        r0 == [IdleReq EXCEPT !.verb = verb, !.seg = seg, !.name = name, !.op = op,
                              !.solo = Quiet, !.after = FinishedNow, !.table = table]
    IN  /\ req[i].pc = "idle"
        /\ i <= ReqLimit(app)
        /\ \A j \in Slots : j < i => req[j].pc # "idle"
        /\ IF op = "none"
             THEN /\ req' = [req EXCEPT ![i] =
                       [r0 EXCEPT !.resp = IF Unrouted(app, verb, seg) = "badrequest"
                                             THEN BadRequestResp ELSE NotFoundResp,
                                  !.pc = "done"]]
                  /\ store' = store
           ELSE IF Injected(op)
             THEN /\ \E why \in InjectedErrors :
                       req' = [req EXCEPT ![i] = [r0 EXCEPT !.ret = Threw(why), !.pc = "await"]]
                  /\ store' = store
           ELSE IF st \in MemStores
             THEN /\ req' = [req EXCEPT ![i] =
                       [r0 EXCEPT !.ret = MemCallRet(st, op, store, name),
                                  !.prior = store[name],
                                  !.applied = (op = "inc"),
                                  !.writes = IF op = "inc" THEN 1 ELSE 0,
                                  !.ver = AppliedTo(name),
                                  !.seen = store[name],
                                  !.pc = "await"]]
                  /\ store' = MemCallData(st, op, store, name)
           ELSE /\ req' = [req EXCEPT ![i] =
                       [r0 EXCEPT !.cmd = FirstCmd(st, op), !.sent = 1, !.pc = "sent"]]
                /\ store' = store
        /\ UNCHANGED <<app, inject, table, spare, vote>>

\* The external service processes the command of request i, atomically, or
\* the request fails in transit (network, throttling) and changes nothing.
Service(i, up) ==
    LET r == req[i]
        own == r.table = StartTable
        recs == IF own THEN store ELSE spare
        done == ServiceRecords(r.cmd, recs, r.name)
    IN  /\ r.pc = "sent"
        /\ IF up
             THEN /\ store' = IF own THEN done ELSE store
                  /\ spare' = IF own THEN spare ELSE done
                  /\ req' = [req EXCEPT ![i] =
                       [r EXCEPT !.reply = ServiceReply(r.cmd, recs, r.name),
                                 !.prior = IF r.cmd \in {"UpdateItem", "FsUpdate"}
                                             THEN recs[r.name] ELSE r.prior,
                                 !.applied = \/ r.applied
                                             \/ r.cmd = "UpdateItem"
                                             \/ (r.cmd = "FsUpdate" /\ FsUpdateOk(recs, r.name)),
                                 !.writes = IF done[r.name] # recs[r.name]
                                              THEN r.writes + 1 ELSE r.writes,
                                 !.ver = AppliedTo(r.name),
                                 !.seen = recs[r.name],
                                 !.pc = "reply"]]
             ELSE /\ store' = store
                  /\ spare' = spare
                  /\ req' = [req EXCEPT ![i] =
                       [r EXCEPT !.reply = Reply(FALSE, "unavailable", Undef), !.pc = "reply"]]
        /\ UNCHANGED <<app, inject, table, vote>>

\* What the store function returns once the service answered its command.
StoreReturn(st, cmd, reply, name) ==
    CASE ~reply.ok -> Threw(reply.why)
      [] cmd = "UpdateItem" -> DynamoPutReturn(reply, name)
      [] cmd = "FsGet" -> FirestoreGetReturn(reply, name)
      [] cmd = "GetItem" /\ st = "dynamoLambda" -> DynamoLambdaGetReturn(reply, name)
      [] OTHER -> DynamoGetReturn(reply, name)

\* A store function that sends its command again when it failed.
FirestorePutNextRetries(cmd, reply) ==
    IF ~reply.ok THEN cmd
    ELSE IF cmd = "FsUpdate" THEN "FsGet" ELSE ""

\* Firestore put: await update(...); return get(name) -- a second command.
FirestorePutNext(cmd, reply) == IF cmd = "FsUpdate" /\ reply.ok THEN "FsGet" ELSE ""

\* The awaiting code of request i resumes: the store function continues after
\* its command (and may send another), then the handler answers.
Resume(i) ==
    LET r == req[i]
    IN  /\ r.pc \in {"reply", "await"}
        /\ req' = [req EXCEPT ![i] =
              IF r.pc = "await" THEN Settle(r, r.ret)
              ELSE IF FirestorePutNext(r.cmd, r.reply) # ""
                THEN [r EXCEPT !.cmd = FirestorePutNext(r.cmd, r.reply),
                               !.sent = r.sent + 1, !.pc = "sent"]
              ELSE Settle(r, StoreReturn(StoreOf(app), r.cmd, r.reply, r.name))]
        /\ UNCHANGED <<app, inject, store, table, spare, vote>>

Next ==
    \/ \E i \in Slots, verb \in Verbs, name \in Names : Receive(i, verb, name)
    \/ \E i \in Slots, up \in BOOLEAN : Service(i, up)
    \/ \E i \in Slots : Resume(i)

Spec == Init /\ [][Next]_vars

\* ------------------------------------------------------------- scheduling
\* The service answers every command it was sent (with a result or with a
\* failure), and the event loop resumes every function whose awaited
\* promise has settled.
Fairness ==
    \A i \in Slots : /\ WF_vars(\E up \in BOOLEAN : Service(i, up))
                     /\ WF_vars(Resume(i))

SpecLive == Init /\ [][Next]_vars /\ Fairness

\* ------------------------------------------------- requests that are aborted
\* The client of request i goes away (connection reset, gateway timeout)
\* while its handler is waiting.  No handler listens for it: the store call
\* goes on, and what the handler writes afterwards reaches nobody.
\* An abort that takes back what the request wrote.
AbortRecordsRollsBack(recs, r) ==
    IF r.applied THEN [recs EXCEPT ![r.name] = r.prior] ELSE recs

AbortRecords(recs, r) == recs

Abort(i) ==
    LET r == req[i]
    IN  /\ InFlight(r)
        /\ r.op = "inc"
        /\ ~r.aborted
        /\ req' = [req EXCEPT ![i] = [r EXCEPT !.aborted = TRUE]]
        /\ store' = AbortRecords(store, r)
        /\ UNCHANGED <<app, inject, table, spare, vote>>

\* One plain name and one inherited name are enough here: no statement
\* about an abort involves two names.
AbortNames == {"a"} \cup ProtoNames

NextAbort ==
    \/ \E i \in IoSlots, verb \in Verbs, name \in AbortNames : Receive(i, verb, name)
    \/ \E i \in IoSlots, up \in BOOLEAN : Service(i, up)
    \/ \E i \in IoSlots : Resume(i)
    \/ \E i \in IoSlots : Abort(i)

\* Only requests that arrive over HTTP have a client that can go away.
InitHttp ==
    /\ app \in HttpApps
    /\ inject = "none"
    /\ store \in InitStore(app)
    /\ table = StartTable
    /\ spare = EmptyMap
    /\ req = [i \in Slots |-> IdleReq]
    /\ vote = [i \in VoteSlots |-> IdleVote]

SpecAbort == InitHttp /\ [][NextAbort]_vars

\* ------------------------------------------------- requests for any segment
\* The HTTP entrypoints, asked for /count/<seg> with segments that are not
\* plain names as well.
NextPath ==
    \/ \E i \in IoSlots, verb \in Verbs, seg \in Segments : Receive(i, verb, seg)
    \/ \E i \in IoSlots, up \in BOOLEAN : Service(i, up)
    \/ \E i \in IoSlots : Resume(i)

SpecPath == InitHttp /\ [][NextPath]_vars

\* --------------------------------------------- dynamosimple, re-initialised
\* dynamosimple keeps its client and table in module-level variables and
\* exports init(c, tableName), which assigns them.  The integration test
\* calls it in every test case, with a table it has just created.
init(t) ==
    /\ StoreOf(app) = "dynamosimple"
    /\ table' = t
    /\ UNCHANGED <<app, inject, store, req, spare, vote>>

InitModule ==
    /\ app = "dynamosimpleTest"
    /\ inject = "none"
    /\ store = EmptyMap
    /\ table = StartTable
    /\ spare = EmptyMap
    /\ req = [i \in Slots |-> IdleReq]
    /\ vote = [i \in VoteSlots |-> IdleVote]

NextModule ==
    \/ \E i \in IoSlots, verb \in Verbs, name \in Names : Receive(i, verb, name)
    \/ \E i \in IoSlots, up \in BOOLEAN : Service(i, up)
    \/ \E i \in IoSlots : Resume(i)
    \/ \E t \in Tables : init(t)

SpecModule == InitModule /\ [][NextModule]_vars

\* ------------------------------------------- in-memory stores, run in parallel
\* The in-memory put/increment take no lock.  Node runs each of them to
\* completion, which is what Spec models.  SpecParallel runs the same
\* statements on a runtime that executes requests genuinely in parallel
\* (the case spec section 8 demands): every read and every write of the map
\* is a step of its own.
\*   DB.put:    cond: this.data[name] ?   operand: this.data[name] + 1
\*              write: this.data[name] = ...   get: return this.get(name)
\*   increment: test: if (!db[name])   zero: db[name] = 0
\*              incread/incwrite: db[name]++   get: return get(name)
ParallelApps == {"lambdaHttp", "stage03"}

InitParallel ==
    /\ app \in ParallelApps
    /\ inject = "none"
    /\ store = EmptyMap
    /\ table = StartTable
    /\ spare = EmptyMap
    /\ req = [i \in Slots |-> IdleReq]
    /\ vote = [i \in VoteSlots |-> IdleVote]

ReceiveInc(i, name) ==
    /\ req[i].pc = "idle"
    /\ \A j \in Slots : j < i => req[j].pc # "idle"
    /\ req' = [req EXCEPT ![i] =
          [IdleReq EXCEPT !.verb = "POST", !.seg = name, !.name = name, !.op = "inc",
                          !.solo = Quiet,
                          !.after = FinishedNow,
                          !.pc = IF StoreOf(app) = "inmemory" THEN "cond" ELSE "test"]]
    /\ UNCHANGED <<app, inject, store, table, spare, vote>>

\* Where a read of the map leads, by the value read.
AfterRead(pc, v) ==
    CASE pc = "cond" -> (IF Truthy(v) THEN "operand" ELSE "write")
      [] pc = "operand" -> "write"
      [] pc = "test" -> (IF ~Truthy(v) THEN "zero" ELSE "incread")
      [] pc = "incread" -> "incwrite"

ParRead(i) ==
    LET r == req[i]
        v == Lookup(store, r.name)
    IN  /\ r.pc \in {"cond", "operand", "test", "incread"}
        /\ req' = [req EXCEPT ![i] =
              [r EXCEPT !.tmp = IF r.pc = "cond" /\ ~Truthy(v) THEN Undef ELSE v,
                        !.prior = store[r.name],
                        !.pc = AfterRead(r.pc, v)]]
        /\ UNCHANGED <<app, inject, store, table, spare, vote>>

\* The value a write stores: put's conditional expression (tmp holds the
\* operand, Undef when the condition was falsy), increment's 0 or tmp++.
WriteValue(pc, tmp) ==
    CASE pc = "write" -> (IF tmp = Undef THEN Num(1) ELSE Plus1(tmp))
      [] pc = "zero" -> Num(0)
      [] pc = "incwrite" -> PostInc(tmp)

ParWrite(i) ==
    LET r == req[i]
    IN  /\ r.pc \in {"write", "zero", "incwrite"}
        /\ store' = [store EXCEPT ![r.name] = WriteValue(r.pc, r.tmp)]
        /\ req' = [req EXCEPT ![i] =
              [r EXCEPT !.pc = IF r.pc = "zero" THEN "incread" ELSE "get",
                        !.writes = IF r.pc = "zero" THEN r.writes ELSE r.writes + 1,
                        !.applied = TRUE]]
        /\ UNCHANGED <<app, inject, table, spare, vote>>

ParGet(i) ==
    LET r == req[i]
    IN  /\ r.pc = "get"
        /\ req' = [req EXCEPT ![i] =
              [r EXCEPT !.ret = MemCallRet(StoreOf(app), "get", store, r.name),
                        !.pc = "await"]]
        /\ UNCHANGED <<app, inject, store, table, spare, vote>>

NextParallel ==
    \/ \E i \in IoSlots, name \in Names : Receive(i, "GET", name)
    \/ \E i \in IoSlots, name \in Names : ReceiveInc(i, name)
    \/ \E i \in IoSlots : ParRead(i)
    \/ \E i \in IoSlots : ParWrite(i)
    \/ \E i \in IoSlots : ParGet(i)
    \/ \E i \in IoSlots : Resume(i)

SpecParallel == InitParallel /\ [][NextParallel]_vars

\* ------------------------------------------------------- reading the state
\* What the store's get returns for name against the records as they are.
GetNow(st, recs, name) ==
    CASE st = "inmemory" -> MemGet(recs, name)
      [] st = "stage03" -> Stage03Get(recs, name)
      [] st = "firestore" -> FirestoreGetReturn(FsGetDoc(recs, name), name)
      [] st = "dynamoLambda" -> DynamoLambdaGetReturn(DdbGetItem(recs, name), name)
      [] OTHER -> DynamoGetReturn(DdbGetItem(recs, name), name)

Durable(a) == StoreOf(a) \notin MemStores

\* The count a +1 was applied against: 0 for "no record".
PriorCount(v) == IF v.t = "num" THEN v.n ELSE 0

IncsOf(name) == {i \in Slots : req[i].op = "inc" /\ req[i].name = name}

Succeeded(r) == r.pc = "done" /\ r.ret.k = "ok"

\* Every request so far was received while no other was in flight.
Sequential == \A j \in Slots : req[j].pc # "idle" => req[j].solo

\* The successful increments of the same name up to and including slot i.
Rank(i) ==
    Cardinality({j \in IncsOf(req[i].name) : j <= i /\ req[j].ret.k = "ok"})

C2_ReturnsOwnIncrement ==
    \A i \in Slots :
        (req[i].op = "inc" /\ req[i].name \in PlainNames /\ Succeeded(req[i]))
        => /\ req[i].ret = Ok(req[i].name, Num(PriorCount(req[i].prior) + 1))
           /\ \A j \in IncsOf(req[i].name) :
                 (j # i /\ Succeeded(req[j])) => req[j].ret.count # req[i].ret.count

\* -------------------------------------------------------------------- C3
\* C3: in every HTTP handler of /count/{name}, a store call that throws or
\* rejects is answered with status 500 and the body
\* {status: 500, msg: "internal server error"}.
C3_FailureIs500 ==
    \A i \in Slots :
        (app \in HttpApps /\ Finished(req[i]) /\ req[i].ret.k = "threw")
        => req[i].resp = ErrorResp

\* -------------------------------------------------------------------- C4
\* C4: in every entrypoint that serves POST /count/{name} (createApp, the
\* express servers, the cloud function, the POST lambda entrypoint) a POST
\* calls the store's increment with the path's name, and a GET calls get.
PostApps == HttpApps \ {"getsimpleLambda"}

C4_PostCallsIncrement ==
    \A i \in Slots :
        (app \in PostApps /\ req[i].pc # "idle")
        => /\ req[i].verb = "POST" => req[i].op = "inc"
           /\ req[i].verb = "GET" => req[i].op = "get"

\* -------------------------------------------------------------------- C5
\* C5: on every durable backend an increment/put that the service was
\* reachable for succeeds and returns {name, count: c + 1}, c the count of
\* the record it found (0 when there was none), and stores that count.
\* Stated for calls that ran one at a time.
C5_DurableIncrement ==
    \A i \in Slots :
        (/\ Durable(app) /\ Sequential
         /\ req[i].op = "inc" /\ Finished(req[i])
         /\ req[i].ret.why # "unavailable")
        => /\ req[i].ret = Ok(req[i].name, Num(PriorCount(req[i].prior) + 1))
           /\ store[req[i].name].t = "num"

\* -------------------------------------------------------------------- C6
\* C6: on every durable backend get(name) of a name without a record returns
\* {name, count: 0}: never null, never undefined, never a failure for absence.
C6_DurableGetAbsent ==
    \A i \in Slots :
        (/\ Durable(app) /\ req[i].op = "get" /\ Finished(req[i])
         /\ req[i].reply.ok /\ req[i].reply.item = Undef)
        => req[i].ret = Ok(req[i].name, Num(0))

\* -------------------------------------------------------------------- C7
\* C7: in the in-memory backends, for every name (none excluded) that has
\* never been incremented, get(name) returns {name, count: 0} and
\* GET /count/{name} answers 200 with the body {name, count: 0}.
C7_MemGetNew ==
    \A i \in Slots :
        (/\ StoreOf(app) \in MemStores /\ app \in HttpApps /\ inject = "none"
         /\ req[i].op = "get" /\ req[i].pc = "done"
         /\ IncsOf(req[i].name) = {})
        => /\ req[i].ret = Ok(req[i].name, Num(0))
           /\ req[i].resp = Resp(200, "counter", req[i].name, Num(0))

\* -------------------------------------------------------------------- C8
\* C8: after n sequential successful increments of a name that was absent,
\* the i-th returned count = i and get(name) returns {name, count: n}.
FirstFoundNothing(name) ==
    \A i \in IncsOf(name) : (req[i].ret.k = "ok" /\ Rank(i) = 1) => req[i].prior = Undef

C8_SequentialIncrements ==
    \A i \in Slots :
        (/\ Sequential /\ Quiet /\ inject = "none"
         /\ req[i].op = "inc" /\ Succeeded(req[i])
         /\ FirstFoundNothing(req[i].name))
        => /\ req[i].ret = Ok(req[i].name, Num(Rank(i)))
           /\ (\A j \in IncsOf(req[i].name) : j <= i)
                 => GetNow(StoreOf(app), store, req[i].name) = Ok(req[i].name, Num(Rank(i)))

\* -------------------------------------------------------------------- C9
\* C9: through the HTTP adapter on one in-memory store, with awaited
\* requests, the i-th POST /count/{name} answers 200 {name, count: i} and a
\* GET answers 200 {name, count: m}, m the number of POSTs completed before.
PostsBefore(i) == Cardinality({j \in IncsOf(req[i].name) : j < i})

C9_HttpCounts ==
    \A i \in Slots :
        (/\ StoreOf(app) \in MemStores /\ app \in HttpApps /\ inject = "none"
         /\ Sequential /\ req[i].pc = "done")
        => /\ req[i].op = "inc" =>
                req[i].resp = Resp(200, "counter", req[i].name, Num(PostsBefore(i) + 1))
           /\ req[i].op = "get" =>
                req[i].resp = Resp(200, "counter", req[i].name, Num(PostsBefore(i)))

\* ------------------------------------------------------------------- C10
\* C10: get changes no stored state in any backend: every step of a get
\* call, successful or failed, leaves every record and every count as it was.
C10_GetChangesNothing ==
    [][\A i \in Slots : (req'[i] # req[i] /\ req'[i].op = "get") => store' = store]_vars

\* A get of a name without a record has completed and there is still no record.
C10_Witness ==
    \E i \in Slots :
        /\ req[i].op = "get" /\ Finished(req[i])
        /\ store[req[i].name] = Undef

\* A call that returned (a Count, null or undefined) rather than threw.
Returned(r) == Finished(r) /\ r.ret.k \in {"ok", "null", "undef"}

GetsOf(name) == {i \in Slots : req[i].op = "get" /\ req[i].name = name}

\* C11: two successful gets of one name, with no increment of that name
\* applied between their reads (both read at the same number of applied
\* increments of the name), return the same result, whatever other gets and
\* increments of other names ran in between.
C11_GetIdempotent ==
    \A n \in Names : \A i, j \in GetsOf(n) :
        (Returned(req[i]) /\ Returned(req[j]) /\ req[i].ver = req[j].ver)
        => req[i].ret = req[j].ret

\* get(n), then an increment of another name, then get(n) again, all answered.
C11_Witness ==
    \E n \in Names, i, j, k \in Slots :
        /\ i < j /\ j < k
        /\ i \in GetsOf(n) /\ k \in GetsOf(n)
        /\ Returned(req[i]) /\ Returned(req[k])
        /\ req[j].op = "inc" /\ req[j].name # n /\ req[j].applied /\ Finished(req[j])
        /\ j \in req[k].after

\* The records of a store that holds nothing but the record rec of name.
OnlyRecord(name, rec) == [EmptyMap EXCEPT ![name] = rec]

\* What the call op(name) returns from a store where no other name was ever
\* touched and name's record is rec.
AloneRet(st, op, name, rec) ==
    CASE st \in MemStores -> MemCallRet(st, op, OnlyRecord(name, rec), name)
      [] op = "inc" /\ st # "firestore" ->
            DynamoPutReturn(DdbUpdateReply(OnlyRecord(name, rec), name), name)
      [] OTHER -> GetNow(st, OnlyRecord(name, rec), name)

\* C12: names are independent.  A step changes the record of a name only if
\* it is a step of an increment of that very name, and every call on a name
\* returns what it would return had no other name ever been operated on.
C12_NamesIndependent ==
    /\ [][\A n \in Names : store'[n] # store[n]
              => \E i \in Slots : /\ req'[i] # req[i]
                                  /\ req'[i].op = "inc"
                                  /\ req'[i].name = n]_vars
    /\ [](\A i \in Slots : Returned(req[i]) /\ req[i].op # "none"
              => req[i].ret = AloneRet(StoreOf(app), req[i].op, req[i].name, req[i].seen))

\* increment(b), then increment(a), then get(b) answers 1.
C12_Witness ==
    \E a, b \in Names, i, j, k \in Slots :
        /\ a # b /\ i < j /\ j < k
        /\ req[i].op = "inc" /\ req[i].name = b /\ Returned(req[i])
        /\ req[j].op = "inc" /\ req[j].name = a /\ req[j].applied
        /\ k \in GetsOf(b) /\ Returned(req[k]) /\ j \in req[k].after
        /\ store[a] # Undef /\ store[b] # Undef

\* x >= y as JavaScript compares two counts: numerically between numbers,
\* by text between the function's source text (k = 0) and the strings built
\* from it, and false where an operand converts to NaN.
TextLen(v) == IF v.t = "fn" THEN 0 ELSE v.n

CountGeq(x, y) ==
    CASE x.t = "num" /\ y.t = "num" -> x.n >= y.n
      [] x.t \in {"fn", "str"} /\ y.t \in {"fn", "str"} -> TextLen(x) >= TextLen(y)
      [] OTHER -> FALSE

\* x < y, compared the same way.
CountLess(x, y) ==
    CASE x.t = "num" /\ y.t = "num" -> x.n < y.n
      [] x.t \in {"fn", "str"} /\ y.t \in {"fn", "str"} -> TextLen(x) < TextLen(y)
      [] OTHER -> FALSE

\* The count a record stands for: 0 where there is no record.
StoredCount(rec) == IF rec = Undef THEN Num(0) ELSE rec

\* C13: monotonic reads.  A get of a name that was received after another
\* get of the same name was answered returns a count at least as large, and
\* no step lowers the stored count of a name.
C13_MonotonicReads ==
    /\ [](\A n \in Names : \A i, j \in GetsOf(n) :
              (req[i].ret.k = "ok" /\ req[j].ret.k = "ok" /\ i \in req[j].after)
              => CountGeq(req[j].ret.count, req[i].ret.count))
    /\ [][\A n \in Names : store'[n] # store[n]
              => ~CountLess(StoredCount(store'[n]), StoredCount(store[n]))]_vars

\* A record that holds a count: a non-negative integer.
IsCount(rec) == rec.t = "num" /\ rec.n >= 0

\* C14: every stored count is a non-negative integer (never a string, NaN
\* or another non-number); a step changes the count of a name only as a
\* step of an increment of that name, by exactly +1; and an increment that
\* changed the count succeeds.
C14_CountsAreNaturals ==
    /\ [](\A n \in Names : store[n] # Undef => IsCount(store[n]))
    /\ [][\A n \in Names : store'[n] # store[n]
              => /\ \E i \in Slots : /\ req'[i] # req[i]
                                     /\ req'[i].op = "inc"
                                     /\ req'[i].name = n
                 /\ store'[n] = Num(PriorCount(store[n]) + 1)]_vars
    /\ [](\A i \in Slots : (req[i].applied /\ Finished(req[i])) => req[i].ret.k = "ok")

Failed(r) == Finished(r) /\ r.ret.k = "threw"

\* C15: nothing of a store failure is observable in the response.  Whatever
\* the cause or the error text, a failed request is answered by the one
\* fixed error response, or (handlers without a catch) by no response at
\* all, and any two failed requests of an app get the same.
C15_NoLeak ==
    \A i \in Slots : (app \in HttpApps /\ Failed(req[i]))
        => /\ req[i].resp \in {ErrorResp, NoResp}
           /\ \A j \in Slots : Failed(req[j]) => req[j].resp = req[i].resp

\* Two requests failed with different errors and both were answered.
C15_Witness ==
    \E i, j \in Slots :
        /\ Failed(req[i]) /\ Failed(req[j])
        /\ req[i].ret.why # req[j].ret.why
        /\ req[i].resp.status = 500 /\ req[j].resp.status = 500

\* The requests an entrypoint is there to serve: GET /count/{name}
\* everywhere, POST /count/{name} everywhere but on the GET-only Lambda.
Served(a, verb) == a \in HttpApps /\ (verb = "GET" \/ (verb = "POST" /\ a \in PostApps))

\* C16: for GET and POST /count/{name}, when the store call succeeded with
\* Counter c the response is 200 with body exactly c (same name, same
\* count), and no status other than 200 or 500 is ever produced.
C16_SuccessIs200 ==
    \A i \in Slots : (req[i].pc # "idle" /\ Served(app, req[i].verb))
        => /\ (Finished(req[i]) /\ req[i].ret.k = "ok")
                 => req[i].resp = Resp(200, "counter", req[i].ret.name, req[i].ret.count)
           /\ req[i].resp.status \in {0, 200, 500}

\* The map of a fresh in-memory DB after the store calls of requests 1..k,
\* run in that order, and what it returns to request i.
RECURSIVE RefData(_)
RefData(k) ==
    IF k = 0 THEN EmptyMap
    ELSE IF req[k].op \in {"get", "inc"}
      THEN MemCallData("inmemory", req[k].op, RefData(k - 1), req[k].name)
    ELSE RefData(k - 1)

RefRet(i) == MemCallRet("inmemory", req[i].op, RefData(i - 1), req[i].name)

\* The durable store started without records.
Fresh ==
    \A n \in Names : /\ AppliedTo(n) = 0 => store[n] = Undef
                     /\ FirstFoundNothing(n)

NoOutage == \A j \in Slots : req[j].reply.why # "unavailable" /\ req[j].ret.why # "unavailable"

\* C17: the backends are interchangeable.  A sequence of get and increment
\* calls run one after the other against a fresh durable store, with the
\* service available, returns at every step what the same sequence
\* returns from a fresh in-memory DB.
C17_SameAsInMemory ==
    \A i \in Slots :
        (Durable(app) /\ Sequential /\ Fresh /\ NoOutage
         /\ Finished(req[i]) /\ req[i].op # "none")
        => req[i].ret = RefRet(i)

\* C18: an applied increment is never undone.  Whatever happens after a
\* request's +1 was applied (its client aborting, its response reaching
\* nobody, a failure of a later call), the request stays applied and no step
\* removes or lowers the record; every later get of the name finds the
\* written record, and for a plain name returns a count that includes it.
C18_AppliedStays ==
    /\ [][\A i \in Slots : req[i].applied
              => /\ req'[i].applied
                 /\ store'[req[i].name] # Undef
                 /\ ~CountLess(StoredCount(store'[req[i].name]),
                               StoredCount(store[req[i].name]))]_vars
    /\ [](\A n \in Names : \A j \in GetsOf(n) : (Returned(req[j]) /\ req[j].ver > 0)
              => /\ req[j].seen # Undef
                 /\ n \in PlainNames
                      => /\ req[j].ret.k = "ok"
                         /\ req[j].ret.count.t = "num"
                         /\ req[j].ret.count.n >= req[j].ver)

\* An increment was applied, its client went away before the answer, and a
\* get received after it had finished returned the incremented count.
C18_Witness ==
    \E i, j \in Slots :
        /\ req[i].op = "inc" /\ req[i].applied /\ req[i].aborted /\ Finished(req[i])
        /\ j \in GetsOf(req[i].name) /\ i \in req[j].after
        /\ Returned(req[j]) /\ req[j].ver > 0
        /\ req[j].ret.count = Num(PriorCount(req[i].prior) + 1)

\* The calls that reached an in-memory store.
MemCalls ==
    {i \in Slots : /\ StoreOf(app) \in MemStores
                   /\ req[i].op \in {"get", "inc"}
                   /\ ~Injected(req[i].op)
                   /\ req[i].pc # "idle"}

\* C19: the in-memory get and increment/put never fail.  For every name and
\* every reachable map the call neither throws nor rejects, and it returns
\* a Counter: the requested name with a count that is a non-negative integer.
C19_MemNeverFails ==
    \A i \in MemCalls :
        /\ req[i].ret.k = "ok"
        /\ req[i].pc # "unhandled"
        /\ req[i].ret.name = req[i].name
        /\ IsCount(req[i].ret.count)

\* The handler of request r called its store operation.
Called(r) == r.op # "none" /\ (r.cmd # "" \/ r.ret # NoRet)

\* C20: the adapter passes the name through unchanged and unvalidated.  For
\* every request to a served route the store operation is called, with
\* exactly the text of the path segment (malformed or not), and the name
\* in a 200 response is that of the request path.
C20_NamePassedThrough ==
    \A i \in Slots : (req[i].pc # "idle" /\ Served(app, req[i].verb))
        => /\ Called(req[i])
           /\ req[i].name = req[i].seg
           /\ req[i].resp.status = 200 => req[i].resp.name = req[i].seg

\* An in-memory put/increment that has read the prior value of its name and
\* has not yet stored the new one.
InSection(r) == r.pc \in {"operand", "write", "zero", "incread", "incwrite"}

Sections == {i \in Slots : InSection(req[i])}

DurableIncs == {i \in Slots : Durable(app) /\ req[i].op = "inc" /\ req[i].pc # "idle"}

UpdateCmds == {"UpdateItem", "BadUpdateItem", "FsUpdate"}

\* C22: a durable increment is exactly one request to the external store.
\* The call sends one command, the update, and what it returns comes from
\* that command's reply; no second command is sent before the call returns.
C22_OneRequest ==
    \A i \in DurableIncs :
        /\ req[i].sent = 1
        /\ req[i].cmd \in UpdateCmds

\* C23: no retries.  A request's store call never sends a command after one
\* of its commands failed, sends each of its commands once (one command,
\* or the update and then the get of the Firestore put), and a request adds
\* one to a record at most once.
C23_NoRetry ==
    \A i \in Slots :
        /\ req[i].writes <= 1
        /\ req[i].writes = 1 => req[i].op = "inc"
        /\ req[i].sent <= 2
        /\ req[i].sent = 2 => (req[i].cmd = "FsGet" /\ req[i].op = "inc" /\ req[i].applied)
        /\ req[i].pc = "sent" => (req[i].reply = NoReply \/ req[i].reply.ok)

\* An increment failed in transit, and the request finished having sent
\* its one command once and having written nothing.
C23_Witness ==
    \E i \in Slots :
        /\ req[i].op = "inc" /\ Failed(req[i])
        /\ req[i].ret.why = "unavailable"
        /\ req[i].sent = 1 /\ req[i].writes = 0

\* C24: a durable backend has no in-process mutable state.  The table (and
\* client) its calls use never changes: every call made so far, in flight
\* or returned, was sent to the table a call issued now would be sent to.
C24_TableFixed ==
    \A i \in Slots : (Durable(app) /\ req[i].sent > 0) => req[i].table = table

\* The increments of request i's name that had returned their Counter when
\* request i was received.
CompletedBefore(i) ==
    Cardinality({j \in req[i].after : /\ req[j].op = "inc"
                                       /\ req[j].name = req[i].name
                                       /\ req[j].ret.k = "ok"})

\* C25: no intermediate state is observable.  Every value a get or an
\* increment of a name returns is a count that lies between the number of
\* increments of the name completed when the call started and the number
\* started when it returned.
C25_NoIntermediate ==
    \A i \in Slots : (req[i].op \in {"get", "inc"} /\ Returned(req[i]))
        => /\ req[i].ret.k = "ok"
           /\ req[i].ret.count.t = "num"
           /\ CompletedBefore(i) <= req[i].ret.count.n
           /\ req[i].ret.count.n <= req[i].begun

\* C26: every request to GET or POST /count/{name} whose handler called the
\* store is eventually answered, with a success body or with the error
\* body, whether the store call succeeds or fails; this holds with other
\* requests, failed ones included, before and around it.
C26_EventuallyAnswered ==
    \A i \in Slots :
        (app \in HttpApps /\ Called(req[i])) ~> (req[i].resp.status \in {200, 500})

\* C27: state unchanged on error.  An increment call that fails has written
\* nothing: it left every count, that of its own name included, as it was.
C27_FailedWritesNothing ==
    \A i \in Slots : (req[i].op = "inc" /\ Failed(req[i]))
        => (req[i].writes = 0 /\ ~req[i].applied)

\* -------------------------------------------------------------- POST /vote
\* The process is gone once an unhandled rejection has ended it.
VoteServing == \A j \in VoteSlots : vote[j].unhandled # "exit"

\* A request to POST /vote: the body parser, then the whole route handler.
VotePost(i, payload) ==
    LET call == messageHandler(JsonBody(payload)) IN
    /\ VoteServing
    /\ vote[i].pc = "idle"
    /\ vote' = [vote EXCEPT ![i] =
            IF ~Parses(payload)
            THEN [@ EXCEPT !.payload = payload, !.pc = "done",
                           !.resp = VoteResp(400, FALSE, "")]
            ELSE [@ EXCEPT !.payload = payload, !.call = call,
                           !.resp = VoteHandler(call),
                           !.pc = IF call.state = "rejected"
                                  THEN "rejection" ELSE "done"]]
    /\ UNCHANGED <<app, inject, store, req, table, spare>>

UnhandledModes == {"warn", "exit"}

\* Nothing handles the rejected promise: once the microtasks have run the
\* runtime reports an unhandled rejection, a warning or the end of the
\* process depending on its version and flags.
VoteRejection(i, mode) ==
    /\ vote[i].pc = "rejection"
    /\ vote' = [vote EXCEPT ![i].pc = "done", ![i].unhandled = mode]
    /\ UNCHANGED <<app, inject, store, req, table, spare>>

\* The voting entrypoint is a process of its own: the counting service is
\* not involved.
InitVote ==
    /\ app = "server"
    /\ inject = "none"
    /\ store = EmptyMap
    /\ table = StartTable
    /\ spare = EmptyMap
    /\ req = [i \in Slots |-> IdleReq]
    /\ vote = [i \in VoteSlots |-> IdleVote]

NextVote ==
    \/ \E i \in VoteSlots, payload \in Payloads : VotePost(i, payload)
    \/ \E i \in VoteSlots, mode \in UnhandledModes : VoteRejection(i, mode)

SpecVote == InitVote /\ [][NextVote]_vars

HandlerFailed(v) == v.call.k = "threw" \/ v.call.state = "rejected"

\* C28: POST /vote answers {ok: true} only if messageHandler completed
\* without error for the body, and answers 500 {ok: false, err} whenever
\* messageHandler threw or its promise rejected.
C28_VoteReportsFailure ==
    \A i \in VoteSlots :
        /\ vote[i].resp.ok => (vote[i].call.k = "promise" /\ vote[i].call.state = "fulfilled")
        /\ HandlerFailed(vote[i]) =>
              vote[i].resp = VoteResp(500, FALSE, vote[i].call.why)
====
